---------------------------- MODULE Spec2Model ----------------------------
(***************************************************************************)
(* Model of the shape diff engine of api-inspector-server                  *)
(* (src/diff/analyzer.ts): getFieldPaths, getTypeAtPath and                *)
(* analyzeEndpointDiffs, driven by a collecting layer that pushes shapes   *)
(* into a GroupedEndpoint and then asks for the analysis; extractShape on  *)
(* the values JSON.parse produces; the request log (src/logger/index.ts)   *)
(* with truncateBody, the session's request_count and the /api/diffs       *)
(* handler that reads the log and parses the analyzer's messages; and the  *)
(* server's capture middleware, /api route and proxy handlers around       *)
(* requestMetadataMap.                                                     *)
(*                                                                         *)
(* JavaScript strings are sequences of one-character strings, so that      *)
(* joining path segments with ".", splitting a path on "." and formatting  *)
(* a message are computed and not assumed.                                 *)
(***************************************************************************)
EXTENDS Integers, Sequences, FiniteSets, TLC

----------------------------------------------------------------------------
(* Strings *)

Range(s) == { s[i] : i \in 1..Len(s) }

EmptyStr == << >>
Dot == "."

\* The type tags getTypeName produces, as strings.
T_string == <<"s","t","r","i","n","g">>
T_number == <<"n","u","m","b","e","r">>
T_boolean == <<"b","o","o","l","e","a","n">>
T_null == <<"n","u","l","l">>
T_undefined == <<"u","n","d","e","f","i","n","e","d">>
T_unknown == <<"u","n","k","n","o","w","n">>
\* The two container classifications getTypeAtPath returns.
T_array == <<"a","r","r","a","y">>
T_object == <<"o","b","j","e","c","t">>

\* The name through which every object reaches its prototype.
K_proto == <<"_","_","p","r","o","t","o","_","_">>

Digit(d) ==
    CASE d = 0 -> "0" [] d = 1 -> "1" [] d = 2 -> "2" [] d = 3 -> "3"
      [] d = 4 -> "4" [] d = 5 -> "5" [] d = 6 -> "6" [] d = 7 -> "7"
      [] d = 8 -> "8" [] d = 9 -> "9"

\* `${n}` for a natural number n.
RECURSIVE NumToStr(_)
NumToStr(n) ==
    IF n < 10 THEN << Digit(n) >>
    ELSE NumToStr(n \div 10) \o << Digit(n % 10) >>

\* Array.prototype.join(sep) over a sequence of strings.
RECURSIVE Join(_, _)
Join(strs, sep) ==
    IF Len(strs) = 0 THEN EmptyStr
    ELSE IF Len(strs) = 1 THEN strs[1]
    ELSE strs[1] \o sep \o Join(Tail(strs), sep)

\* String.prototype.split('.'): the segments between the dots; a string
\* without a dot (the empty string included) is one segment.
RECURSIVE SplitFrom(_, _, _)
SplitFrom(str, i, cur) ==
    IF i > Len(str) THEN << cur >>
    ELSE IF str[i] = Dot THEN << cur >> \o SplitFrom(str, i + 1, EmptyStr)
    ELSE SplitFrom(str, i + 1, Append(cur, str[i]))

Split(str) == SplitFrom(str, 1, EmptyStr)

\* Set.prototype.add on a Set kept as the sequence of its members in
\* insertion order.
SetAdd(set, x) ==
    IF \E i \in 1..Len(set) : set[i] = x THEN set ELSE Append(set, x)

----------------------------------------------------------------------------
(* Shapes (ShapeValue) and the other values a property read can produce *)

Prim(t) == [kind |-> "prim", tag |-> t]
Arr(e) == [kind |-> "array", elem |-> e]
\* An object shape: its own enumerable keys in insertion order.
Obj(fs) == [kind |-> "object", fields |-> fs]
Null == [kind |-> "null"]
Undefined == [kind |-> "undefined"]
Function == [kind |-> "function"]
\* What a read or a call leaves behind when it throws instead of returning.
TypeError == [kind |-> "TypeError"]
\* Object.prototype, which every object shape inherits from.
ObjectPrototype == [kind |-> "Object.prototype"]

\* One field of an object shape.
F(k, v) == [key |-> k, value |-> v]

\* The names of the members of Object.prototype that are functions.
ObjectPrototypeMethods ==
    { <<"c","o","n","s","t","r","u","c","t","o","r">>,
      <<"t","o","S","t","r","i","n","g">>,
      <<"v","a","l","u","e","O","f">>,
      <<"h","a","s","O","w","n","P","r","o","p","e","r","t","y">> }

OwnKeys(obj) == { obj.fields[i].key : i \in 1..Len(obj.fields) }

OwnValue(obj, key) ==
    LET i == CHOOSE j \in 1..Len(obj.fields) : obj.fields[j].key = key
    IN  obj.fields[i].value

\* current[part]: an own property first, then the prototype chain; reading
\* a property of null or undefined throws.
PropertyOfPrototype(part) ==
    IF part \in ObjectPrototypeMethods THEN Function
    ELSE IF part = K_proto THEN Null
    ELSE Undefined

GetProperty(current, part) ==
    IF current.kind \in {"null", "undefined"} THEN TypeError
    ELSE IF current.kind = "Object.prototype" THEN PropertyOfPrototype(part)
    ELSE IF part \in OwnKeys(current) THEN OwnValue(current, part)
    ELSE IF part = K_proto THEN ObjectPrototype
    ELSE PropertyOfPrototype(part)

\* The test without `current !== null`: typeof null is 'object'.
IsPlainObject_NullIsObject(current) ==
    current.kind \in {"object", "Object.prototype", "null"}

\* typeof current === 'object' && current !== null && !Array.isArray(current)
IsPlainObject(current) == current.kind \in {"object", "Object.prototype"}

----------------------------------------------------------------------------
(* getFieldPaths *)

RECURSIVE getFieldPaths(_, _)
RECURSIVE FieldPathsOfKeys(_, _, _, _)

\* nestedPaths.forEach(p => { if (p !== fieldPath) paths.add(p); })
RECURSIVE AddNested(_, _, _)
AddNested(paths, nested, fieldPath) ==
    IF Len(nested) = 0 THEN paths
    ELSE AddNested(IF nested[1] # fieldPath THEN SetAdd(paths, nested[1])
                   ELSE paths,
                   Tail(nested), fieldPath)

\* The for-in loop over the keys of an object shape, from key i on.
FieldPathsOfKeys(shape, prefix, i, paths) ==
    IF i > Len(shape.fields) THEN paths
    ELSE LET key == shape.fields[i].key
             fieldPath == IF prefix # EmptyStr
                          THEN prefix \o << Dot >> \o key ELSE key
             nestedPaths == getFieldPaths(shape.fields[i].value, fieldPath)
         IN  FieldPathsOfKeys(shape, prefix, i + 1,
                 AddNested(SetAdd(paths, fieldPath), nestedPaths, fieldPath))

\* getFieldPaths descending into the element shape of an array.
getFieldPaths_IntoArrays(shape, prefix) ==
    IF shape.kind = "prim"
    THEN IF prefix # EmptyStr THEN << prefix >> ELSE << >>
    ELSE IF shape.kind = "array"
    THEN AddNested(IF prefix # EmptyStr THEN << prefix >> ELSE << >>,
                   getFieldPaths(shape.elem, prefix), prefix)
    ELSE IF shape.kind = "object"
    THEN FieldPathsOfKeys(shape, prefix, 1, << >>)
    ELSE << >>

getFieldPaths(shape, prefix) ==
    IF shape.kind = "prim"
    THEN IF prefix # EmptyStr THEN << prefix >> ELSE << >>
    ELSE IF shape.kind = "array"
    THEN IF prefix # EmptyStr THEN << prefix >> ELSE << >>
    ELSE IF shape.kind = "object"
    THEN FieldPathsOfKeys(shape, prefix, 1, << >>)
    ELSE << >>

----------------------------------------------------------------------------
(* getTypeAtPath *)

\* The loop over the segments: the node reached, or "failed" when a
\* segment is read from something that is not a plain object.
RECURSIVE WalkParts(_, _)
WalkParts(current, parts) ==
    IF Len(parts) = 0 THEN [ok |-> TRUE, node |-> current]
    ELSE IF IsPlainObject(current)
    THEN WalkParts(GetProperty(current, parts[1]), Tail(parts))
    ELSE [ok |-> FALSE, node |-> current]

\* getTypeAtPath leaving by a throw of current[part].
TypeAtPathThrows(shape, path) ==
    WalkParts(shape, Split(path)).node.kind = "TypeError"

\* getTypeAtPath classifying leaves only: an object node gives "unknown".
getTypeAtPath_LeavesOnly(shape, path) ==
    LET walk == WalkParts(shape, Split(path))
        current == walk.node
    IN  IF ~walk.ok THEN T_unknown
        ELSE IF current.kind = "prim" THEN current.tag
        ELSE IF current.kind = "array" THEN T_array
        ELSE T_unknown

getTypeAtPath(shape, path) ==
    LET walk == WalkParts(shape, Split(path))
        current == walk.node
    IN  IF ~walk.ok THEN T_unknown
        ELSE IF current.kind = "prim" THEN current.tag
        ELSE IF current.kind = "array" THEN T_array
        ELSE IF IsPlainObject(current) THEN T_object
        ELSE T_unknown

----------------------------------------------------------------------------
(* analyzeEndpointDiffs *)

\* Map.prototype.get(key) || dflt, a Map being a function on its keys.
MapGet(map, key, dflt) == IF key \in DOMAIN map THEN map[key] ELSE dflt

\* Map.prototype.set(key, value).
MapSet(map, key, value) ==
    [k \in (DOMAIN map) \cup {key} |-> IF k = key THEN value ELSE map[k]]

EmptyMap == [k \in {} |-> 0]

\* What the first loop builds: allFields (a Set), fieldOccurrences and
\* fieldTypes (Maps; a value of fieldTypes is a Set of tags).
NoFields == [allFields |-> << >>, fieldOccurrences |-> EmptyMap,
             fieldTypes |-> EmptyMap]

\* The literal pieces of the two messages.
L_field == <<"f","i","e","l","d"," ","'">>
L_missing_in == <<"'"," ","m","i","s","s","i","n","g"," ","i","n"," ">>
L_response == <<" ","r","e","s","p","o","n","s","e">>
L_has_types == <<"'"," ","h","a","s"," ","i","n","c","o","n","s","i","s",
                 "t","e","n","t"," ","t","y","p","e","s",":"," ">>
L_comma == <<",", " ">>
L_space == <<" ">>

\* CollectField with fieldTypes kept as an array: a tag is pushed again
\* every time it is seen.
CollectField_NoDedup(acc, shape, field) ==
    LET types == MapGet(acc.fieldTypes, field, << >>)
        type == getTypeAtPath(shape, field)
    IN  [allFields |-> SetAdd(acc.allFields, field),
         fieldOccurrences |->
             MapSet(acc.fieldOccurrences, field,
                    MapGet(acc.fieldOccurrences, field, 0) + 1),
         fieldTypes |-> MapSet(acc.fieldTypes, field, Append(types, type))]

\* The body of `for (const field of fields)` for one field of one shape.
CollectField(acc, shape, field) ==
    LET types == MapGet(acc.fieldTypes, field, << >>)
        type == getTypeAtPath(shape, field)
    IN  IF TypeAtPathThrows(shape, field) THEN TypeError
        ELSE [allFields |-> SetAdd(acc.allFields, field),
              fieldOccurrences |->
                  MapSet(acc.fieldOccurrences, field,
                         MapGet(acc.fieldOccurrences, field, 0) + 1),
              fieldTypes |->
                  MapSet(acc.fieldTypes, field, SetAdd(types, type))]

\* `for (const field of fields)` over the fields of one shape, from i on.
RECURSIVE CollectShape(_, _, _, _)
CollectShape(acc, shape, fields, i) ==
    IF acc = TypeError \/ i > Len(fields) THEN acc
    ELSE CollectShape(CollectField(acc, shape, fields[i]), shape, fields, i + 1)

\* CollectFields as a pairwise diff against shape 0: only the fields of the
\* baseline are collected.
RECURSIVE CollectFields_Baseline(_, _, _)
CollectFields_Baseline(shapes, i, acc) ==
    IF i > Len(shapes) THEN acc
    ELSE CollectFields_Baseline(shapes, i + 1,
             CollectShape(acc, shapes[i],
                 SelectSeq(getFieldPaths(shapes[i], EmptyStr),
                           LAMBDA f : f \in Range(getFieldPaths(shapes[1], EmptyStr))),
                 1))

\* CollectFields resolving the baseline's fields in every shape, also in
\* the shapes that do not contain them.
RECURSIVE CollectFields_ResolveBaseline(_, _, _)
CollectFields_ResolveBaseline(shapes, i, acc) ==
    IF i > Len(shapes) THEN acc
    ELSE LET fields == getFieldPaths(shapes[i], EmptyStr)
             base == Range(getFieldPaths(shapes[1], EmptyStr))
             own == CollectShape(acc, shapes[i], fields, 1)
             all == [own EXCEPT !.fieldTypes =
                        [k \in DOMAIN own.fieldTypes |->
                            IF k \in base /\ k \notin Range(fields)
                            THEN SetAdd(own.fieldTypes[k],
                                        getTypeAtPath(shapes[i], k))
                            ELSE own.fieldTypes[k]]]
         IN  CollectFields_ResolveBaseline(shapes, i + 1, all)

\* `for (const shape of shapes)`, from shape i on.
RECURSIVE CollectFields(_, _, _)
CollectFields(shapes, i, acc) ==
    IF acc = TypeError \/ i > Len(shapes) THEN acc
    ELSE CollectFields(shapes, i + 1,
             CollectShape(acc, shapes[i], getFieldPaths(shapes[i], EmptyStr), 1))

\* MissingMessage with the plural taken from `missingCount >= 1`.
MissingMessage_PluralAtOne(field, missingCount) ==
    L_field \o field \o L_missing_in \o NumToStr(missingCount) \o L_response
        \o (IF missingCount >= 1 THEN << "s" >> ELSE EmptyStr)

\* `field '${field}' missing in ${missingCount} response${...}`
MissingMessage(field, missingCount) ==
    L_field \o field \o L_missing_in \o NumToStr(missingCount) \o L_response
        \o (IF missingCount > 1 THEN << "s" >> ELSE EmptyStr)

\* `field '${field}' has inconsistent types: ${typeList}`
TypeMessage(field, types) ==
    L_field \o field \o L_has_types \o Join(types, L_comma)

\* "field 'p' extra in k response(s)", a third category.
L_extra_in == <<"'"," ","e","x","t","r","a"," ","i","n"," ">>

\* DetectField reporting a field held by a minority of the shapes as extra.
DetectField_Extra(col, field, n) ==
    LET occurrences == MapGet(col.fieldOccurrences, field, 0)
        types == col.fieldTypes[field]
    IN  (IF occurrences * 2 < n
         THEN << L_field \o field \o L_extra_in \o NumToStr(occurrences)
                     \o L_response >>
         ELSE IF occurrences < n
         THEN << MissingMessage(field, n - occurrences) >> ELSE << >>)
        \o
        (IF Len(types) > 1 THEN << TypeMessage(field, types) >> ELSE << >>)

\* DetectField with the type check in an else branch of the missing check.
DetectField_ElseIf(col, field, n) ==
    LET occurrences == MapGet(col.fieldOccurrences, field, 0)
        types == col.fieldTypes[field]
    IN  IF occurrences < n
        THEN << MissingMessage(field, n - occurrences) >>
        ELSE IF Len(types) > 1 THEN << TypeMessage(field, types) >>
        ELSE << >>

\* The messages pushed for one field of allFields.
DetectField(col, field, n) ==
    LET occurrences == MapGet(col.fieldOccurrences, field, 0)
        types == col.fieldTypes[field]
    IN  (IF occurrences < n
         THEN << MissingMessage(field, n - occurrences) >> ELSE << >>)
        \o
        (IF Len(types) > 1 THEN << TypeMessage(field, types) >> ELSE << >>)

\* `for (const field of allFields)`, from field i on.
RECURSIVE DetectInconsistencies(_, _, _)
DetectInconsistencies(col, n, i) ==
    IF i > Len(col.allFields) THEN << >>
    ELSE DetectField(col, col.allFields[i], n)
             \o DetectInconsistencies(col, n, i + 1)

\* TooFewShapes reporting that nothing was compared.
TooFewShapes_ZeroCount(ep) ==
    [endpoint |-> ep.method \o L_space \o ep.path,
     inconsistencies |-> << >>,
     shapes |-> ep.shapes,
     totalShapes |-> 0]

\* The early return for fewer than two shapes.
TooFewShapes(ep) ==
    [endpoint |-> ep.method \o L_space \o ep.path,
     inconsistencies |-> << >>,
     shapes |-> ep.shapes,
     totalShapes |-> Len(ep.shapes)]

analyzeEndpointDiffs(ep) ==
    IF Len(ep.shapes) <= 1 THEN TooFewShapes(ep)
    ELSE LET col == CollectFields(ep.shapes, 1, NoFields)
         IN  IF col = TypeError THEN TypeError
             ELSE [endpoint |-> ep.method \o L_space \o ep.path,
                   inconsistencies |->
                       DetectInconsistencies(col, Len(ep.shapes), 1),
                   shapes |-> ep.shapes,
                   totalShapes |-> Len(ep.shapes)]

----------------------------------------------------------------------------
(* The inputs *)

\* The longest shape list of an endpoint.
MaxShapes == 3

K_a == <<"a">>
K_b == <<"b">>
K_e == <<"e">>
K_p == <<"p">>
K_u == <<"u">>
K_empty == EmptyStr
K_dotted == <<"u", ".", "p">>

M_GET == <<"G","E","T">>
P_users == <<"/","u">>

Methods == { M_GET }
Paths == { P_users }

\* {a: number, e: string} and {a: string}: a field missing, a type changed.
S_full == Obj(<< F(K_a, Prim(T_number)), F(K_e, Prim(T_string)) >>)
S_age == Obj(<< F(K_a, Prim(T_string)) >>)
S_none == Obj(<< >>)
\* {u: {p: {b: string}}} and shapes that differ from it along u.p.b.
S_deep == Obj(<< F(K_u, Obj(<< F(K_p, Obj(<< F(K_b, Prim(T_string)) >>)) >>)) >>)
S_uprim == Obj(<< F(K_u, Prim(T_string)) >>)
\* Arrays as field values, with different element shapes, and at the root.
S_uarr == Obj(<< F(K_u, Arr(Prim(T_number))) >>)
S_uarrobj == Obj(<< F(K_u, Arr(Obj(<< F(K_b, Prim(T_string)) >>))) >>)
S_rootarr == Arr(Obj(<< F(K_a, Prim(T_number)) >>))
S_rootprim == Prim(T_string)
\* Keys that are empty or contain a dot.
S_emptykey == Obj(<< F(K_empty, Obj(<< F(K_a, Prim(T_string)) >>)) >>)
S_dotted == Obj(<< F(K_dotted, Prim(T_boolean)) >>)

ShapeUniverse ==
    { S_full, S_age, S_none, S_deep, S_uprim, S_uarr, S_uarrobj,
      S_rootarr, S_rootprim, S_emptykey, S_dotted }

----------------------------------------------------------------------------
(* The collecting layer and the analysis of one endpoint *)

\* method, path, shapes: the GroupedEndpoint; analysis: the result of
\* analyzeEndpointDiffs, once it has run.  probe, fields, resolved: one
\* pass of the collecting loop over a single shape (its field paths, then
\* the type resolved at one of them).
VARIABLES method, path, shapes, analysis, probe, fields, resolved

\* json: a value given to extractShape; extracted: what the call produced,
\* once it has run.
VARIABLES json, extracted

\* requests: the rows of the requests table, oldest first; handed: the
\* GroupedEndpoints the /api/diffs handler gave to analyzeEndpointDiffs,
\* once it has run.
VARIABLES requests, handed

\* requestMetadataMap: the Map of the capture middleware; inflight: the
\* requests the server has received and not yet answered; issued: how many
\* requests the server has received.
VARIABLES requestMetadataMap, inflight, issued

\* request_count: the column of the active session's row in the sessions
\* table.  logCalls: for each requestId, how many times logRequest was
\* called for it; over: the proxied requests whose exchange with the
\* backend is over.
VARIABLES request_count, logCalls, over

\* body: a body given to truncateBody, as the kind of value it is, the
\* character it is filled with and its size; stored: the text truncateBody
\* returned for it, in runs of equal characters, once it has run.
VARIABLES body, stored

extractVars == << json, extracted >>
bodyVars == << body, stored >>
logVars == << requests, handed >>
serverVars == << requestMetadataMap, inflight, issued,
                request_count, logCalls, over >>

vars == << method, path, shapes, analysis, probe, fields, resolved,
           extractVars, bodyVars, logVars, serverVars >>

\* The parts of the state an analysis of one endpoint does not use.
ExtractIdle == json = Null /\ extracted = << >>
BodyIdle == body = Null /\ stored = << >>
LogIdle == requests = << >> /\ handed = << >>
ServerIdle ==
    /\ requestMetadataMap = EmptyMap /\ inflight = {} /\ issued = 0
    /\ request_count = 0 /\ logCalls = EmptyMap /\ over = {}

endpoint == [method |-> method, path |-> path, shapes |-> shapes]

Analysed == Len(analysis) >= 1

Init ==
    /\ method \in Methods
    /\ path \in Paths
    /\ shapes = << >>
    /\ analysis = << >>
    /\ probe = Null
    /\ fields = << >>
    /\ resolved = << >>
    /\ ExtractIdle /\ BodyIdle /\ LogIdle /\ ServerIdle

\* shapes.push(shape): one more observed response body of the endpoint.
PushShape(shape) ==
    /\ ~Analysed
    /\ Len(shapes) < MaxShapes
    /\ shapes' = Append(shapes, shape)
    /\ UNCHANGED << method, path, analysis, probe, fields, resolved,
                 extractVars, bodyVars, logVars, serverVars >>

\* const analysis = analyzeEndpointDiffs(groupedEndpoint)
Analyze ==
    /\ ~Analysed
    /\ analysis' = << analyzeEndpointDiffs(endpoint) >>
    /\ UNCHANGED << method, path, shapes, probe, fields, resolved,
                 extractVars, bodyVars, logVars, serverVars >>

Next ==
    \/ \E shape \in ShapeUniverse : PushShape(shape)
    \/ Analyze

Spec == Init /\ [][Next]_vars

----------------------------------------------------------------------------
(* One shape: its field paths and the type at each of them *)

K_constructor == <<"c","o","n","s","t","r","u","c","t","o","r">>

\* What the field u can hold, and keys that spell a path below u.
UValues ==
    { Obj(<< >>),
      Obj(<< F(K_p, Prim(T_string)) >>),
      Obj(<< F(K_p, Obj(<< F(K_b, Prim(T_string)) >>)) >>),
      Arr(Prim(T_number)),
      Prim(T_string),
      Null }
DottedKeys ==
    { K_u \o << Dot >> \o K_p,
      K_u \o << Dot >> \o K_p \o << Dot >> \o K_b,
      K_u \o << Dot >> \o K_proto,
      K_u \o << Dot >> \o K_constructor }

ProbeShapes ==
    ShapeUniverse
        \cup { Obj(<< F(K_u, v) >>) : v \in UValues }
        \cup { Obj(<< F(d, Prim(T_number)) >>) : d \in DottedKeys }
        \cup { Obj(<< F(K_u, v), F(d, Prim(T_number)) >>) :
                 v \in UValues, d \in DottedKeys }

Enumerated == Len(fields) = 1
Resolved == Len(resolved) = 1

InitPaths ==
    /\ method \in Methods
    /\ path \in Paths
    /\ shapes = << >>
    /\ analysis = << >>
    /\ probe \in ProbeShapes
    /\ fields = << >>
    /\ resolved = << >>
    /\ ExtractIdle /\ BodyIdle /\ LogIdle /\ ServerIdle

\* The fields the loop `for (const field of fields)` runs over.
FieldsToResolve == IF Enumerated THEN Range(fields[1]) ELSE {}

\* const fields = getFieldPaths(shape)
EnumeratePaths ==
    /\ ~Enumerated
    /\ fields' = << getFieldPaths(probe, EmptyStr) >>
    /\ UNCHANGED << method, path, shapes, analysis, probe, resolved,
                 extractVars, bodyVars, logVars, serverVars >>

\* const type = getTypeAtPath(shape, field), for a field of fields
ResolveType(field) ==
    /\ Enumerated
    /\ ~Resolved
    /\ resolved' = << [field |-> field, type |-> getTypeAtPath(probe, field)] >>
    /\ UNCHANGED << method, path, shapes, analysis, probe, fields,
                 extractVars, bodyVars, logVars, serverVars >>

NextPaths ==
    \/ EnumeratePaths
    \/ \E field \in FieldsToResolve : ResolveType(field)

SpecPaths == InitPaths /\ [][NextPaths]_vars

----------------------------------------------------------------------------
(* What the claims speak about *)

N == Len(shapes)

\* The path set of a shape, and the field universe of the shape list.
PathSet(shape) == Range(getFieldPaths(shape, EmptyStr))
FieldUniverse == UNION { PathSet(shapes[i]) : i \in 1..N }

\* The shapes that contain a path, and the occurrence count of the path.
Containing(p) == { i \in 1..N : p \in PathSet(shapes[i]) }
Occurrence(p) == Cardinality(Containing(p))

\* The tags resolved at p in the shapes that contain it, in the order the
\* shape list first shows them.
RECURSIVE TagsFirstSeen(_, _)
TagsFirstSeen(p, i) ==
    IF i = 0 THEN << >>
    ELSE IF i \in Containing(p)
    THEN SetAdd(TagsFirstSeen(p, i - 1), getTypeAtPath(shapes[i], p))
    ELSE TagsFirstSeen(p, i - 1)

TypeSeq(p) == TagsFirstSeen(p, N)
TypeSet(p) == Range(TypeSeq(p))

Inconsistencies == analysis[1].inconsistencies

\* How many times a message is in the list.
Occurs(msg) ==
    Cardinality({ j \in 1..Len(Inconsistencies) : Inconsistencies[j] = msg })

StartsWith(str, pre) ==
    Len(pre) <= Len(str) /\ SubSeq(str, 1, Len(pre)) = pre

\* The messages of the list that are missing-field messages for p, and
\* those that are type-inconsistency messages for p.
MissingAbout(p) ==
    { j \in 1..Len(Inconsistencies) :
        StartsWith(Inconsistencies[j], L_field \o p \o L_missing_in) }
TypeAbout(p) ==
    { j \in 1..Len(Inconsistencies) :
        StartsWith(Inconsistencies[j], L_field \o p \o L_has_types) }

\* "field 'p' missing in k response(s)" as the specification words it.
ExpectedMissing(p, k) ==
    L_field \o p \o L_missing_in \o NumToStr(k)
        \o (IF k = 1 THEN L_response ELSE L_response \o << "s" >>)

\* "field 'p' has inconsistent types: t1, t2, ..."
ExpectedTypes(p, tags) == L_field \o p \o L_has_types \o Join(tags, L_comma)

\* C1: for N >= 2 shapes, every path of the field universe contained in
\* c < N shapes gets exactly one missing-field message, which states N - c
\* with "response" for 1 and "responses" for more, and a path contained in
\* all N shapes gets none.
C1_MissingMessages ==
    (Analysed /\ N >= 2) =>
        \A p \in FieldUniverse :
            IF Occurrence(p) < N
            THEN /\ Cardinality(MissingAbout(p)) = 1
                 /\ Occurs(ExpectedMissing(p, N - Occurrence(p))) = 1
            ELSE MissingAbout(p) = {}

\* A list of three shapes in which one path misses once, one twice and one
\* never, analysed.
C1_Witness ==
    /\ Analysed
    /\ N = 3
    /\ \E p, q, r \in FieldUniverse :
          /\ Occurrence(p) = 2 /\ Occurs(ExpectedMissing(p, 1)) = 1
          /\ Occurrence(q) = 1 /\ Occurs(ExpectedMissing(q, 2)) = 1
          /\ Occurrence(r) = 3 /\ MissingAbout(r) = {}

\* C2: for N >= 2 shapes, every path whose type set has more than one
\* member gets exactly one type-inconsistency message, listing the tags
\* comma-joined in first-seen order, and a path whose type set has one
\* member gets none.
C2_TypeMessages ==
    (Analysed /\ N >= 2) =>
        \A p \in FieldUniverse :
            IF Cardinality(TypeSet(p)) > 1
            THEN /\ Cardinality(TypeAbout(p)) = 1
                 /\ Occurs(ExpectedTypes(p, TypeSeq(p))) = 1
            ELSE TypeAbout(p) = {}

\* {a: number, ...} then {a: string}: "number, string" is reported for a.
C2_Witness ==
    /\ Analysed
    /\ shapes = << S_full, S_age >>
    /\ Occurs(ExpectedTypes(K_a, << T_number, T_string >>)) = 1
    /\ TypeAbout(K_e) = {}

\* C3: with 0 or 1 shapes the inconsistency list is empty, endpoint is
\* "<method> <path>" and totalShapes is the length of the list.
C3_FewShapes ==
    (Analysed /\ N <= 1) =>
        /\ analysis[1].inconsistencies = << >>
        /\ analysis[1].endpoint = method \o << " " >> \o path
        /\ analysis[1].totalShapes = N

\* A single shape with nested fields, analysed.
C3_Witness ==
    /\ Analysed
    /\ shapes = << S_deep >>
    /\ analysis[1].totalShapes = 1

\* The messages of the list that name p as their field.
About(p) ==
    { j \in 1..Len(Inconsistencies) :
        StartsWith(Inconsistencies[j], L_field \o p \o << "'" >>) }

\* The shape list reordered by a permutation of its indices, and the
\* messages analyzeEndpointDiffs gives for a shape list.
Reorderings(n) ==
    { f \in [1..n -> 1..n] : \A i, j \in 1..n : f[i] = f[j] => i = j }
Permuted(f) == [i \in 1..N |-> shapes[f[i]]]
MessagesFor(list) ==
    analyzeEndpointDiffs([method |-> method, path |-> path,
                          shapes |-> list]).inconsistencies

\* Reading a message list back: the text after a prefix, and a type list
\* cut at each ", ".
After(str, pre) == SubSeq(str, Len(pre) + 1, Len(str))

RECURSIVE CutAtCommas(_, _, _)
CutAtCommas(str, i, cur) ==
    IF i > Len(str) THEN << cur >>
    ELSE IF i < Len(str) /\ str[i] = "," /\ str[i + 1] = " "
    THEN << cur >> \o CutAtCommas(str, i + 2, EmptyStr)
    ELSE CutAtCommas(str, i + 1, Append(cur, str[i]))

\* The (path, count text) pairs a message list reports as missing and the
\* (path, set of types) pairs it reports as type-inconsistent, for the
\* paths of a field universe.
MissingReports(msgs, universe) ==
    { << r[1], After(msgs[r[2]], L_field \o r[1] \o L_missing_in) >> :
        r \in { r \in universe \X (1..Len(msgs)) :
                  StartsWith(msgs[r[2]], L_field \o r[1] \o L_missing_in) } }
TypeReports(msgs, universe) ==
    { << r[1], Range(CutAtCommas(
                   After(msgs[r[2]], L_field \o r[1] \o L_has_types),
                   1, EmptyStr)) >> :
        r \in { r \in universe \X (1..Len(msgs)) :
                  StartsWith(msgs[r[2]], L_field \o r[1] \o L_has_types) } }
\* Whether a message is of one of the two kinds, for a path of the field
\* universe.
Reported(msg, universe) ==
    \E p \in universe :
        \/ StartsWith(msg, L_field \o p \o L_missing_in)
        \/ StartsWith(msg, L_field \o p \o L_has_types)

\* The exact texts of the two kinds of message.
TagsAnywhere(p) == { getTypeAtPath(shapes[i], p) : i \in 1..N }
Orderings(tags) ==
    { o \in [1..Cardinality(tags) -> tags] : Range(o) = tags }
IsMissingMessage(msg) ==
    \E p \in FieldUniverse, k \in 1..N : msg = ExpectedMissing(p, k)
IsTypeMessage(msg) ==
    \E p \in FieldUniverse :
        \E tags \in SUBSET TagsAnywhere(p) :
            /\ Cardinality(tags) >= 2
            /\ \E o \in Orderings(tags) : msg = ExpectedTypes(p, o)

\* C4: whatever the order of the shape list, the same paths are reported
\* missing with the same counts and the same paths are reported
\* type-inconsistent with the same set of types; the first shape has no
\* special role.
C4_OrderIrrelevant ==
    Analysed =>
        LET universe == FieldUniverse
            missing == MissingReports(Inconsistencies, universe)
            types == TypeReports(Inconsistencies, universe)
        IN  \A f \in Reorderings(N) :
                LET other == MessagesFor(Permuted(f))
                IN  /\ MissingReports(other, universe) = missing
                    /\ TypeReports(other, universe) = types
                    /\ Len(other) = Len(Inconsistencies)
                    /\ \A j \in 1..Len(other) : Reported(other[j], universe)

\* Three shapes analysed, where putting another shape first changes the
\* message list but not what it reports.
C4_Witness ==
    /\ Analysed
    /\ N = 3
    /\ MissingReports(Inconsistencies, FieldUniverse) # {}
    /\ TypeReports(Inconsistencies, FieldUniverse) # {}
    /\ \E f \in Reorderings(N) :
          /\ f[1] # 1
          /\ MessagesFor(Permuted(f)) # Inconsistencies

\* C5: a shape that does not contain a path adds no tag to the type set
\* of the path; a path absent from some shapes with one tag in the shapes
\* that contain it gets its missing-field message and no
\* type-inconsistency message.
C5_AbsentAddsNoTag ==
    (Analysed /\ N >= 2) =>
        LET col == CollectFields(shapes, 1, NoFields)
        IN  \A p \in FieldUniverse :
                LET tags == { getTypeAtPath(shapes[i], p) : i \in Containing(p) }
                IN  /\ Range(col.fieldTypes[p]) \subseteq tags
                    /\ (Occurrence(p) < N /\ Cardinality(tags) = 1) =>
                          /\ TypeAbout(p) = {}
                          /\ Cardinality(About(p)) = 1
                          /\ MissingAbout(p) = About(p)

\* {u: {p: {b: string}}} and {}: u is absent from the second shape, and
\* u.p.b is reported missing only.
C5_Witness ==
    /\ Analysed
    /\ shapes = << S_deep, S_none >>
    /\ getTypeAtPath(S_none, K_u \o << Dot >> \o K_p \o << Dot >> \o K_b)
           = T_unknown
    /\ Cardinality(MissingAbout(K_u \o << Dot >> \o K_p \o << Dot >> \o K_b)) = 1
    /\ TypeAbout(K_u \o << Dot >> \o K_p \o << Dot >> \o K_b) = {}

C7_BothMessages ==
    (Analysed /\ N >= 2) =>
        \A p \in FieldUniverse :
            (Occurrence(p) < N /\ Cardinality(TypeSet(p)) > 1) =>
                /\ Occurs(ExpectedMissing(p, N - Occurrence(p))) = 1
                /\ Occurs(ExpectedTypes(p, TypeSeq(p))) = 1

\* A path in two of three shapes, with two types.
C7_Witness ==
    /\ Analysed
    /\ N = 3
    /\ \E p \in FieldUniverse :
          /\ Occurrence(p) = 2
          /\ Cardinality(TypeSet(p)) = 2
          /\ Cardinality(About(p)) = 2

\* A shape with the inside of every array replaced by the placeholder
\* element: two shapes differ only inside array element shapes when this
\* makes them equal.
RECURSIVE EraseArrays(_)
EraseArrays(shape) ==
    IF shape.kind = "array" THEN Arr(Prim(T_unknown))
    ELSE IF shape.kind = "object"
    THEN Obj([i \in 1..Len(shape.fields) |->
                 F(shape.fields[i].key, EraseArrays(shape.fields[i].value))])
    ELSE shape

RootLeaf(shape) == shape.kind \in {"array", "prim"}

\* C9: an array node gives at most its own path and nothing beneath it, a
\* root-level array or primitive gives no path; so the inconsistency list
\* does not depend on what is inside array element shapes, and is empty
\* when every shape is a root-level array or primitive.
C9_ArraysOpaque ==
    Analysed =>
        /\ \A i \in 1..N :
              /\ getFieldPaths(shapes[i], EmptyStr)
                     = getFieldPaths(EraseArrays(shapes[i]), EmptyStr)
              /\ RootLeaf(shapes[i]) =>
                     getFieldPaths(shapes[i], EmptyStr) = << >>
        /\ Inconsistencies
               = MessagesFor([i \in 1..N |-> EraseArrays(shapes[i])])
        /\ (\A i \in 1..N : RootLeaf(shapes[i])) => Inconsistencies = << >>

\* {u: [{b: string}]}, a root-level array and {u: string}, analysed: the
\* messages are those of the list with the arrays emptied.
C9_Witness ==
    /\ Analysed
    /\ shapes = << S_uarrobj, S_rootarr, S_uprim >>
    /\ EraseArrays(S_uarrobj) # S_uarrobj
    /\ EraseArrays(S_rootarr) # S_rootarr
    /\ Occurs(ExpectedTypes(K_u, << T_array, T_string >>)) = 1
    /\ Occurs(ExpectedMissing(K_u, 1)) = 1

----------------------------------------------------------------------------
(* Claims about one shape *)

\* The dot-joined path from the root to every key of a shape, at every
\* nesting depth; segments is the sequence of keys above the shape.
RECURSIVE KeyPaths(_, _)
KeyPaths(shape, segments) ==
    IF shape.kind = "object"
    THEN UNION { { Join(Append(segments, shape.fields[i].key), << Dot >>) }
                     \cup KeyPaths(shape.fields[i].value,
                                   Append(segments, shape.fields[i].key)) :
                 i \in 1..Len(shape.fields) }
    ELSE {}

\* A set of paths that holds, with a path, the path of every node above.
PrefixClosed(pathSet) ==
    \A p \in pathSet :
        \A k \in 1..(Len(Split(p)) - 1) :
            Join(SubSeq(Split(p), 1, k), << Dot >>) \in pathSet

\* C8: the path set of an object shape contains the full dot-joined path
\* from the root to every key at every nesting depth, intermediate object
\* nodes included, and is prefix-closed.
C8_FullPaths ==
    (Enumerated /\ probe.kind = "object") =>
        /\ KeyPaths(probe, << >>) \subseteq Range(fields[1])
        /\ PrefixClosed(Range(fields[1]))

\* The type the walk over own keys gives: "unknown" as soon as a segment
\* is read from an array, a primitive tag or null, or names a key that
\* does not exist; after the last segment the tag, "array" or "object".
RECURSIVE WalkOwnKeys(_, _)
WalkOwnKeys(node, parts) ==
    IF Len(parts) = 0
    THEN IF node.kind = "prim" THEN node.tag
         ELSE IF node.kind = "array" THEN T_array
         ELSE IF node.kind = "object" THEN T_object
         ELSE T_unknown
    ELSE IF node.kind = "object" /\ parts[1] \in OwnKeys(node)
    THEN WalkOwnKeys(OwnValue(node, parts[1]), Tail(parts))
    ELSE T_unknown

\* C10: getTypeAtPath walks the dot-separated segments through plain
\* object shapes only and returns "unknown" when a segment is read from an
\* array, a primitive tag or null, or when the key does not exist; after
\* the last segment it returns the tag, "array" or "object".
C10_TypeAtPath ==
    Resolved =>
        resolved[1].type = WalkOwnKeys(probe, Split(resolved[1].field))

----------------------------------------------------------------------------
(* extractShape *)

\* The values extractShape is given: null, undefined, functions and objects
\* as above (an object is its own enumerable keys in enumeration order),
\* and numbers, strings, booleans and arrays.
JNumber(n) == [kind |-> "number", num |-> n]
JString(s) == [kind |-> "string", str |-> s]
JBoolean(b) == [kind |-> "boolean", bool |-> b]
JArray(items) == [kind |-> "array", items |-> items]

K_hasOwnProperty ==
    <<"h","a","s","O","w","n","P","r","o","p","e","r","t","y">>

getTypeName(value) ==
    IF value.kind = "null" THEN T_null
    ELSE IF value.kind = "undefined" THEN T_undefined
    ELSE IF value.kind = "array" THEN T_array
    ELSE IF value.kind = "object" THEN T_object
    ELSE IF value.kind = "number" THEN T_number
    ELSE IF value.kind = "boolean" THEN T_boolean
    ELSE IF value.kind = "string" THEN T_string
    ELSE T_unknown

\* jsonObject.hasOwnProperty(key): the method is read from the object, so
\* an own property of that name is what gets called; calling something
\* that is not a function throws.
HasOwnProperty(jsonObject, key) ==
    IF GetProperty(jsonObject, K_hasOwnProperty) = Function
    THEN [threw |-> FALSE, result |-> key \in OwnKeys(jsonObject)]
    ELSE [threw |-> TRUE, result |-> FALSE]

\* shape[key] = value on an object created by {}: the key __proto__ is the
\* accessor of Object.prototype, which replaces the prototype when it is
\* given an object or an array and ignores a string; every other key
\* becomes an own property.
ReplaceOwn(fs, key, value) ==
    [i \in 1..Len(fs) |-> IF fs[i].key = key THEN F(key, value) ELSE fs[i]]

SetProperty(shape, key, value) ==
    IF key = K_proto
    THEN IF value.kind \in {"object", "array"}
         THEN [kind |-> "object", fields |-> shape.fields, proto |-> value]
         ELSE shape
    ELSE IF key \in OwnKeys(shape)
    THEN [shape EXCEPT !.fields = ReplaceOwn(@, key, value)]
    ELSE [shape EXCEPT !.fields = Append(@, F(key, value))]

\* [x], where computing x may have thrown.
ArrayOf(x) == IF x = TypeError THEN TypeError ELSE Arr(x)

RECURSIVE extractShape(_)
RECURSIVE extractArrayShape(_)
RECURSIVE ShapeOfKeys(_, _, _)

\* extractArrayShape that takes the tag of the first element whatever it is.
extractArrayShape_Flat(arr) ==
    IF Len(arr.items) = 0 THEN Arr(Prim(T_unknown))
    ELSE LET firstElement == arr.items[1]
             firstType == getTypeName(firstElement)
         IN  IF firstType = T_object
             THEN ArrayOf(extractShape(firstElement))
             ELSE Arr(Prim(firstType))

extractArrayShape(arr) ==
    IF Len(arr.items) = 0 THEN Arr(Prim(T_unknown))
    ELSE LET firstElement == arr.items[1]
             firstType == getTypeName(firstElement)
         IN  IF firstType = T_object
             THEN ArrayOf(extractShape(firstElement))
             ELSE IF firstType = T_array
             THEN ArrayOf(extractArrayShape(firstElement))
             ELSE Arr(Prim(firstType))

\* The for-in loop over the keys of jsonObject, from key i on.
ShapeOfKeys(jsonObject, i, shape) ==
    IF i > Len(jsonObject.fields) THEN shape
    ELSE LET key == jsonObject.fields[i].key
             has == HasOwnProperty(jsonObject, key)
             value == jsonObject.fields[i].value
             valueType == getTypeName(value)
             valueShape == IF valueType = T_object THEN extractShape(value)
                           ELSE IF valueType = T_array
                           THEN extractArrayShape(value)
                           ELSE Prim(valueType)
         IN  IF has.threw THEN TypeError
             ELSE IF ~has.result
             THEN ShapeOfKeys(jsonObject, i + 1, shape)
             ELSE IF valueShape = TypeError THEN TypeError
             ELSE ShapeOfKeys(jsonObject, i + 1,
                              SetProperty(shape, key, valueShape))

extractShape(jsonObject) ==
    IF jsonObject.kind = "null" THEN Prim(T_null)
    ELSE IF jsonObject.kind = "undefined" THEN Prim(T_undefined)
    ELSE LET type == getTypeName(jsonObject)
         IN  IF type # T_object /\ type # T_array THEN Prim(type)
             ELSE IF jsonObject.kind = "array"
             THEN extractArrayShape(jsonObject)
             ELSE ShapeOfKeys(jsonObject, 1, Obj(<< >>))

----------------------------------------------------------------------------
(* One call of extractShape *)

V_x == << "x" >>

\* Values that are not objects or arrays; one string spells a type tag.
JsonLeaves ==
    { Null, JNumber(0), JNumber(7), JString(V_x), JString(T_number),
      JBoolean(TRUE), JBoolean(FALSE) }
OtherLeaves == { Undefined, Function }

\* What a field or an array element can hold.
JsonInner ==
    JsonLeaves
        \cup { Obj(<< >>), Obj(<< F(K_a, JNumber(7)) >>),
               Obj(<< F(K_hasOwnProperty, JBoolean(TRUE)) >>),
               Obj(<< F(K_proto, Obj(<< F(K_b, JString(V_x)) >>)) >>),
               JArray(<< >>), JArray(<< JNumber(7), JString(V_x) >>),
               JArray(<< JArray(<< JBoolean(TRUE) >>) >>) }

\* Key names, two of them names of members of Object.prototype.
JsonKeys == { K_a, K_empty, K_dotted, K_proto, K_hasOwnProperty }

JsonUniverse ==
    JsonLeaves \cup OtherLeaves \cup JsonInner
        \cup { Obj(<< F(k, v) >>) : k \in JsonKeys, v \in JsonInner }
        \cup { Obj(<< F(K_a, v) >>) : v \in OtherLeaves }
        \cup { Obj(<< F(K_b, v), F(k, w) >>) :
                 k \in JsonKeys, v \in { JString(V_x), Obj(<< >>) },
                 w \in { JNumber(0), Obj(<< F(K_a, Null) >>) } }
        \cup { JArray(<< v >>) : v \in JsonInner \cup OtherLeaves }
        \cup { JArray(<< v, w >>) :
                 v \in { JNumber(0), Obj(<< F(K_a, JNumber(7)) >>) },
                 w \in JsonInner }

Extracted == Len(extracted) = 1

InitExtract ==
    /\ method \in Methods
    /\ path \in Paths
    /\ shapes = << >>
    /\ analysis = << >>
    /\ probe = Null
    /\ fields = << >>
    /\ resolved = << >>
    /\ json \in JsonUniverse
    /\ extracted = << >>
    /\ BodyIdle /\ LogIdle /\ ServerIdle

\* const shape = extractShape(parsed)
Extract ==
    /\ ~Extracted
    /\ extracted' = << extractShape(json) >>
    /\ UNCHANGED << method, path, shapes, analysis, probe, fields, resolved,
                    json, bodyVars, logVars, serverVars >>

NextExtract == Extract

SpecExtract == InitExtract /\ [][NextExtract]_vars

----------------------------------------------------------------------------
(* What the claims about extractShape speak about *)

\* The shape the specification gives a value: the tag of a primitive, a
\* one-element array holding the shape of element 0 ('unknown' when there
\* is none), and for an object every own key with the shape of its value.
RECURSIVE ShapeOf(_)
ShapeOf(value) ==
    IF value.kind = "array"
    THEN IF Len(value.items) = 0 THEN Arr(Prim(T_unknown))
         ELSE Arr(ShapeOf(value.items[1]))
    ELSE IF value.kind = "object"
    THEN Obj([i \in 1..Len(value.fields) |->
                 F(value.fields[i].key, ShapeOf(value.fields[i].value))])
    ELSE Prim(getTypeName(value))

Returned == Extracted /\ extracted[1] # TypeError

\* C11: for an object input extractShape returns an object shape whose key
\* set is exactly the input's own enumerable keys, each key mapped to the
\* shape of its value, at every depth; {} gives {}.
C11_OwnKeys ==
    (Extracted /\ json.kind = "object") =>
        /\ Returned
        /\ extracted[1].kind = "object"
        /\ OwnKeys(extracted[1]) = OwnKeys(json)
        /\ \A key \in OwnKeys(json) :
               OwnValue(extracted[1], key) = ShapeOf(OwnValue(json, key))

\* C12: for an array input extractShape returns a one-element array:
\* ['unknown'] for the empty array, otherwise the shape of element 0 (an
\* object shape, a nested array shape or a primitive tag); the elements
\* after the first never influence the result.
C12_FirstElement ==
    (Extracted /\ json.kind = "array") =>
        /\ Returned
        /\ extracted[1].kind = "array"
        /\ IF Len(json.items) = 0
           THEN extracted[1].elem = Prim(T_unknown)
           ELSE /\ extracted[1].elem = ShapeOf(json.items[1])
                /\ extracted[1] = extractShape(JArray(<< json.items[1] >>))

\* The tag the specification gives a value that is not an object or array.
IsLeaf(value) == value.kind \notin {"object", "array"}
ExpectedTag(value) ==
    CASE value.kind = "null" -> T_null
      [] value.kind = "undefined" -> T_undefined
      [] value.kind = "number" -> T_number
      [] value.kind = "string" -> T_string
      [] value.kind = "boolean" -> T_boolean
      [] OTHER -> T_unknown

\* C13: null gives 'null', undefined 'undefined', every number 'number',
\* every string 'string', every boolean 'boolean' and any other value that
\* is not an object or array 'unknown', whether the value is the root, a
\* field value or the first element of an array.
C13_PrimitiveTags ==
    Extracted =>
        /\ IsLeaf(json) => extracted[1] = Prim(ExpectedTag(json))
        /\ json.kind = "object" =>
               \A i \in 1..Len(json.fields) :
                   IsLeaf(json.fields[i].value) =>
                       /\ Returned
                       /\ json.fields[i].key \in OwnKeys(extracted[1])
                       /\ OwnValue(extracted[1], json.fields[i].key)
                              = Prim(ExpectedTag(json.fields[i].value))
        /\ (json.kind = "array" /\ Len(json.items) > 0
                /\ IsLeaf(json.items[1])) =>
               extracted[1] = Arr(Prim(ExpectedTag(json.items[1])))

\* The six tags a leaf of a shape can be.
LeafTags ==
    { T_string, T_number, T_boolean, T_null, T_undefined, T_unknown }

\* A shape whose leaves are tags and whose array nodes hold one element
\* shape; a prototype the shape was given is a shape too.
RECURSIVE WellFormed(_)
WellFormed(shape) ==
    IF shape.kind = "prim"
    THEN DOMAIN shape = {"kind", "tag"} /\ shape.tag \in LeafTags
    ELSE IF shape.kind = "array"
    THEN DOMAIN shape = {"kind", "elem"} /\ WellFormed(shape.elem)
    ELSE IF shape.kind = "object"
    THEN /\ \A i \in 1..Len(shape.fields) : WellFormed(shape.fields[i].value)
         /\ "proto" \in DOMAIN shape => WellFormed(shape.proto)
    ELSE FALSE

\* The same value with every number, string and boolean replaced by one
\* fixed value of its type.
RECURSIVE Erase(_)
Erase(value) ==
    IF value.kind = "number" THEN JNumber(0)
    ELSE IF value.kind = "string" THEN JString(EmptyStr)
    ELSE IF value.kind = "boolean" THEN JBoolean(FALSE)
    ELSE IF value.kind = "array"
    THEN JArray([i \in 1..Len(value.items) |-> Erase(value.items[i])])
    ELSE IF value.kind = "object"
    THEN Obj([i \in 1..Len(value.fields) |->
                 F(value.fields[i].key, Erase(value.fields[i].value))])
    ELSE value

\* C14: every shape extractShape returns is well-formed and value-free:
\* every leaf is one of the six tags, every array node has exactly one
\* element, and the shape does not depend on the numbers, strings and
\* booleans of the input, so none of them appears as a leaf.
C14_ValueFree ==
    Returned =>
        /\ WellFormed(extracted[1])
        /\ extracted[1] = extractShape(Erase(json))

\* A shape returned for an object whose field holds the string "number":
\* the leaf is the tag 'string', not the data.
C14_Witness ==
    /\ Returned
    /\ json = Obj(<< F(K_a, JString(T_number)) >>)
    /\ extracted[1] = Obj(<< F(K_a, Prim(T_string)) >>)

----------------------------------------------------------------------------
(* Repeated analyses *)

\* The most calls of analyzeEndpointDiffs in one run of the server.
MaxRuns == 3

P_orders == << "/", "o" >>

RerunUniverse == { S_full, S_age, S_none, S_deep, S_rootprim }

\* The shape lists of the other endpoint.
OtherLists == { << S_full, S_age >>, << S_deep, S_none, S_full >> }

otherEndpoint(list) == [method |-> method, path |-> P_orders, shapes |-> list]

\* analyzeEndpointDiffs called once more on a GroupedEndpoint, taking the
\* first shape off the endpoint's list as its baseline.
Reanalyze_Consuming ==
    /\ Analysed
    /\ Len(analysis) < MaxRuns
    /\ analysis' = Append(analysis, analyzeEndpointDiffs(endpoint))
    /\ shapes' = IF Len(shapes) = 0 THEN shapes ELSE Tail(shapes)
    /\ UNCHANGED << method, path, probe, fields, resolved,
                    extractVars, bodyVars, logVars, serverVars >>

\* analyzeEndpointDiffs called once more on the same GroupedEndpoint;
\* analysis keeps what every call returned, in call order.
Reanalyze ==
    /\ Analysed
    /\ Len(analysis) < MaxRuns
    /\ analysis' = Append(analysis, analyzeEndpointDiffs(endpoint))
    /\ UNCHANGED << method, path, shapes, probe, fields, resolved,
                    extractVars, bodyVars, logVars, serverVars >>

\* analyzeEndpointDiffs called on another endpoint in between.
AnalyzeOther(list) ==
    /\ Analysed
    /\ Len(analysis) < MaxRuns
    /\ analysis' = Append(analysis, analyzeEndpointDiffs(otherEndpoint(list)))
    /\ UNCHANGED << method, path, shapes, probe, fields, resolved,
                    extractVars, bodyVars, logVars, serverVars >>

NextRerun ==
    \/ \E shape \in RerunUniverse : PushShape(shape)
    \/ Analyze
    \/ Reanalyze
    \/ \E list \in OtherLists : AnalyzeOther(list)

SpecRerun == Init /\ [][NextRerun]_vars

\* The calls made on the endpoint itself, as positions of analysis.
OwnRuns ==
    { i \in 1..Len(analysis) :
        analysis[i].endpoint = method \o L_space \o path }

RECURSIVE IsJson(_)
IsJson(value) ==
    IF value.kind = "array"
    THEN \A i \in 1..Len(value.items) : IsJson(value.items[i])
    ELSE IF value.kind = "object"
    THEN \A i \in 1..Len(value.fields) : IsJson(value.fields[i].value)
    ELSE value.kind \in {"null", "number", "string", "boolean"}

\* C17: extractShape is total: for every JSON-decodable value, whatever its
\* key names (hasOwnProperty and __proto__ included), it returns a shape
\* and never throws.
C17_Total ==
    (Extracted /\ IsJson(json)) =>
        extracted[1] # TypeError /\ WellFormed(extracted[1])

----------------------------------------------------------------------------
(* Lists that mix every kind of entry *)

S_unull == Obj(<< F(K_u, Null) >>)
S_nullpath == Obj(<< F(K_u, Null), F(K_dotted, Prim(T_number)) >>)
S_primpath == Obj(<< F(K_u, Prim(T_string)), F(K_dotted, Prim(T_number)) >>)

\* Entries of a shape list: null, a root-level primitive, a root-level
\* array, objects, and objects in which the path u.p runs through an
\* object, a primitive, an array or null.
MixedUniverse ==
    { Null, S_rootprim, S_rootarr, S_deep, S_uprim, S_uarr,
      S_unull, S_nullpath, S_primpath }

NextMixed ==
    \/ \E shape \in MixedUniverse : PushShape(shape)
    \/ Analyze

SpecMixed == Init /\ [][NextMixed]_vars

\* C18: analyzeEndpointDiffs ends with a result and never throws, for every
\* list of shapes: lists that mix root-level primitives, arrays, null
\* entries and objects, and lists in which a path runs through an object in
\* one shape and through a primitive, an array or null in another.
C18_NeverThrows ==
    /\ analyzeEndpointDiffs(endpoint) # TypeError
    /\ analyzeEndpointDiffs(endpoint).totalShapes = N
    /\ Analysed => analysis[1] # TypeError
    /\ \A i \in 1..N :
           \A field \in Range(getFieldPaths(shapes[i], EmptyStr)) :
               ~TypeAtPathThrows(shapes[i], field)

\* A null entry next to a shape where u.p runs through objects and one
\* where it runs through null, analysed into messages.
C18_Witness ==
    /\ Analysed
    /\ analysis[1] # TypeError
    /\ { Null, S_deep, S_nullpath } \subseteq Range(shapes)
    /\ Len(analysis[1].inconsistencies) >= 2

----------------------------------------------------------------------------
(* JSON.parse, for texts without white space, escapes, signs or fractions *)

SyntaxError == [kind |-> "SyntaxError"]

Parsed(value, next) == [ok |-> TRUE, value |-> value, next |-> next]
NotParsed == [ok |-> FALSE]

DigitChars == { Digit(d) : d \in 0..9 }
DigitValue(c) == CHOOSE d \in 0..9 : Digit(d) = c

\* Whether the text reads word from position i on.
ReadsAt(text, i, word) ==
    /\ i + Len(word) - 1 <= Len(text)
    /\ SubSeq(text, i, i + Len(word) - 1) = word

W_true == <<"t","r","u","e">>
W_false == <<"f","a","l","s","e">>

\* The characters of a string up to its closing quote.
RECURSIVE ParseChars(_, _, _)
ParseChars(text, i, chars) ==
    IF i > Len(text) THEN NotParsed
    ELSE IF text[i] = "\"" THEN Parsed(chars, i + 1)
    ELSE ParseChars(text, i + 1, Append(chars, text[i]))

\* The digits of a number; a number that starts with 0 is 0.
RECURSIVE ParseDigits(_, _, _)
ParseDigits(text, i, n) ==
    IF i <= Len(text) /\ text[i] \in DigitChars
    THEN ParseDigits(text, i + 1, 10 * n + DigitValue(text[i]))
    ELSE Parsed(JNumber(n), i)

\* A member defined on the object being built: a key given twice keeps its
\* place and takes the last value.
DefineOwn(fs, key, value) ==
    IF \E i \in 1..Len(fs) : fs[i].key = key
    THEN ReplaceOwn(fs, key, value)
    ELSE Append(fs, F(key, value))

RECURSIVE ParseValue(_, _)
RECURSIVE ParseElements(_, _, _)
RECURSIVE ParseMembers(_, _, _)

\* value (',' value)* ']'
ParseElements(text, i, items) ==
    LET v == ParseValue(text, i)
    IN  IF ~v.ok \/ v.next > Len(text) THEN NotParsed
        ELSE IF text[v.next] = ","
        THEN ParseElements(text, v.next + 1, Append(items, v.value))
        ELSE IF text[v.next] = "]"
        THEN Parsed(JArray(Append(items, v.value)), v.next + 1)
        ELSE NotParsed

\* string ':' value (',' string ':' value)* '}'
ParseMembers(text, i, fs) ==
    IF i > Len(text) \/ text[i] # "\"" THEN NotParsed
    ELSE LET k == ParseChars(text, i + 1, EmptyStr)
         IN  IF ~k.ok \/ k.next > Len(text) \/ text[k.next] # ":"
             THEN NotParsed
             ELSE LET v == ParseValue(text, k.next + 1)
                  IN  IF ~v.ok \/ v.next > Len(text) THEN NotParsed
                      ELSE IF text[v.next] = ","
                      THEN ParseMembers(text, v.next + 1,
                                        DefineOwn(fs, k.value, v.value))
                      ELSE IF text[v.next] = "}"
                      THEN Parsed(Obj(DefineOwn(fs, k.value, v.value)),
                                  v.next + 1)
                      ELSE NotParsed

ParseValue(text, i) ==
    IF i > Len(text) THEN NotParsed
    ELSE IF text[i] = "{"
    THEN IF i < Len(text) /\ text[i + 1] = "}"
         THEN Parsed(Obj(<< >>), i + 2)
         ELSE ParseMembers(text, i + 1, << >>)
    ELSE IF text[i] = "["
    THEN IF i < Len(text) /\ text[i + 1] = "]"
         THEN Parsed(JArray(<< >>), i + 2)
         ELSE ParseElements(text, i + 1, << >>)
    ELSE IF text[i] = "\""
    THEN LET s == ParseChars(text, i + 1, EmptyStr)
         IN  IF s.ok THEN Parsed(JString(s.value), s.next) ELSE NotParsed
    ELSE IF text[i] = "0" THEN Parsed(JNumber(0), i + 1)
    ELSE IF text[i] \in DigitChars THEN ParseDigits(text, i, 0)
    ELSE IF ReadsAt(text, i, W_true)
    THEN Parsed(JBoolean(TRUE), i + Len(W_true))
    ELSE IF ReadsAt(text, i, W_false)
    THEN Parsed(JBoolean(FALSE), i + Len(W_false))
    ELSE IF ReadsAt(text, i, T_null) THEN Parsed(Null, i + Len(T_null))
    ELSE NotParsed

\* JSON.parse(text): the value, or SyntaxError when it throws.
JSON_parse(text) ==
    LET v == ParseValue(text, 1)
    IN  IF v.ok /\ v.next = Len(text) + 1 THEN v.value ELSE SyntaxError

----------------------------------------------------------------------------
(* The request log: logRequest and the queries of the logger *)

MAX_BODY_SIZE == 1024 * 1024

L_truncated ==
    <<"\n","\n","[","T","R","U","N","C","A","T","E","D"," ","-"," ",
      "O","r","i","g","i","n","a","l"," ","s","i","z","e",":"," ">>
L_bytes == <<" ","b","y","t","e","s","]">>

\* A Buffer: its bytes, as numbers.
Buffer(bytes) == [kind |-> "buffer", bytes |-> bytes]

\* The characters of the one-byte UTF-8 codes used here.
FromCharCode(code) == CASE code = 120 -> "x" [] code = 121 -> "y"
CharCode(c) == CASE c = "x" -> 120 [] c = "y" -> 121

\* buf.toString('utf8', start, end) over one-byte codes
BufferToString(bytes, start, end) ==
    SubSeq([i \in 1..(end - start) |-> FromCharCode(bytes[start + i])],
           1, end - start)

\* Math.min
Min(a, b) == IF a < b THEN a ELSE b

\* JSON.stringify(value) for JSON values whose strings need no escapes.
RECURSIVE JSON_stringify(_)
JSON_stringify(value) ==
    CASE value.kind = "string" -> <<"\"">> \o value.str \o <<"\"">>
      [] value.kind = "number" -> NumToStr(value.num)
      [] value.kind = "boolean" -> IF value.bool THEN W_true ELSE W_false
      [] value.kind = "null" -> T_null
      [] value.kind = "array" ->
             <<"[">> \o Join([i \in 1..Len(value.items) |->
                                 JSON_stringify(value.items[i])], <<",">>)
                 \o <<"]">>
      [] value.kind = "object" ->
             <<"{">> \o Join([i \in 1..Len(value.fields) |->
                                 <<"\"">> \o value.fields[i].key
                                     \o <<"\"", ":">>
                                     \o JSON_stringify(value.fields[i].value)],
                             <<",">>)
                 \o <<"}">>

\* !body
Falsy(value) ==
    \/ value.kind \in {"undefined", "null"}
    \/ value.kind = "string" /\ Len(value.str) = 0
    \/ value.kind = "number" /\ value.num = 0
    \/ value.kind = "boolean" /\ ~value.bool

truncateBody(data) ==
    IF Falsy(data) THEN EmptyStr
    ELSE LET bodyStr ==
                 CASE data.kind = "string" -> data.str
                   [] data.kind = "buffer" ->
                          BufferToString(data.bytes, 0,
                              Min(Len(data.bytes), MAX_BODY_SIZE))
                   [] OTHER -> JSON_stringify(data)
         IN  IF Len(bodyStr) > MAX_BODY_SIZE
             THEN SubSeq(bodyStr, 1, MAX_BODY_SIZE) \o L_truncated
                      \o NumToStr(Len(bodyStr)) \o L_bytes
             ELSE bodyStr

\* data.statusCode ?? null
OrNull(value) == IF value.kind = "undefined" THEN Null ELSE value

\* The session of this run of the server, and one of an earlier run whose
\* rows are still in the database file.
CURRENT_SESSION_ID == "current"
EARLIER_SESSION_ID == "earlier"

\* The row logRequest inserts.
RequestRow(data) ==
    [session_id |-> data.sessionId,
     method |-> data.method,
     path |-> data.path,
     status_code |-> OrNull(data.statusCode),
     response_body |-> truncateBody(data.responseBody),
     timestamp |-> data.timestamp]

logRequest(table, data) == Append(table, RequestRow(data))

\* UPDATE sessions SET request_count = (SELECT COUNT(*) FROM requests
\* WHERE session_id = ?) WHERE id = ?: the new value of the column.
updateSessionCount_Increment(table, count, sessionId) == count + 1

updateSessionCount(table, count, sessionId) ==
    Cardinality({ i \in 1..Len(table) : table[i].session_id = sessionId })

\* String.prototype.toUpperCase, for the letters of method names.
UpperChar(c) ==
    CASE c = "g" -> "G" [] c = "e" -> "E" [] c = "t" -> "T"
      [] c = "p" -> "P" [] c = "o" -> "O" [] c = "s" -> "S"
      [] OTHER -> c
toUpperCase(str) == [i \in 1..Len(str) |-> UpperChar(str[i])]

\* SELECT method, path, COUNT(*) ... GROUP BY method, path; the handler
\* treats every endpoint alike, so the groups are kept as a set.
getUniqueEndpoints(table) ==
    { [method |-> table[i].method, path |-> table[i].path,
       count |-> Cardinality({ j \in 1..Len(table) :
                     /\ table[j].method = table[i].method
                     /\ table[j].path = table[i].path })] :
        i \in 1..Len(table) }

\* ORDER BY timestamp DESC
RECURSIVE OrderByTimestampDesc(_)
OrderByTimestampDesc(rows) ==
    IF Len(rows) = 0 THEN << >>
    ELSE LET newest == CHOOSE i \in 1..Len(rows) :
                 \A j \in 1..Len(rows) :
                     \/ rows[j].timestamp < rows[i].timestamp
                     \/ rows[j].timestamp = rows[i].timestamp /\ i <= j
         IN  << rows[newest] >> \o
             OrderByTimestampDesc(
                 SubSeq(rows, 1, newest - 1)
                     \o SubSeq(rows, newest + 1, Len(rows)))

\* LIMIT ?
Limit(rows, limit) ==
    IF Len(rows) > limit THEN SubSeq(rows, 1, limit) ELSE rows

\* The rows of getEndpointRequests as the handler sees them.
RequestOfRow(row) ==
    [method |-> row.method,
     path |-> row.path,
     statusCode |-> row.status_code,
     responseBody |-> row.response_body,
     timestamp |-> row.timestamp]

getEndpointRequests(table, m, p, limit) ==
    LET matching == SelectSeq(table,
                        LAMBDA row : row.method = toUpperCase(m)
                                         /\ row.path = p)
        rows == Limit(OrderByTimestampDesc(matching), limit)
    IN  [i \in 1..Len(rows) |-> RequestOfRow(rows[i])]

----------------------------------------------------------------------------
(* GET /api/diffs: the shapes of every endpoint, then their analysis *)

DiffsLimit == 100

\* statusCode >= lower and statusCode < upper; null compares as 0.
NumberOf(statusCode) ==
    IF statusCode.kind = "number" THEN statusCode.num ELSE 0

\* The test that lets every status from 200 up through.
Successful_From200(req) ==
    /\ Len(req.responseBody) > 0
    /\ NumberOf(req.statusCode) >= 200

\* req.responseBody && req.statusCode >= 200 && req.statusCode < 300
Successful(req) ==
    /\ Len(req.responseBody) > 0
    /\ NumberOf(req.statusCode) >= 200
    /\ NumberOf(req.statusCode) < 300

\* The body of the try block: the shape, or the error the catch swallows.
ShapeOfBody(responseBody) ==
    LET parsed == JSON_parse(responseBody)
    IN  IF parsed = SyntaxError THEN SyntaxError ELSE extractShape(parsed)

\* requests.forEach(req => ...), from request i on.
RECURSIVE CollectShapes(_, _, _)
CollectShapes(reqs, i, acc) ==
    IF i > Len(reqs) THEN acc
    ELSE IF Successful(reqs[i])
    THEN LET shape == ShapeOfBody(reqs[i].responseBody)
         IN  IF shape.kind \in {"SyntaxError", "TypeError"}
             THEN CollectShapes(reqs, i + 1, acc)
             ELSE CollectShapes(reqs, i + 1, Append(acc, shape))
    ELSE CollectShapes(reqs, i + 1, acc)

groupedEndpoint(ep, epShapes) ==
    [method |-> ep.method, path |-> ep.path, requestCount |-> ep.count,
     shapes |-> epShapes]

\* str.includes(sub)
Includes(str, sub) ==
    \E p \in 1..(Len(str) + 1 - Len(sub)) :
        SubSeq(str, p, p + Len(sub) - 1) = sub

\* Whether the literal lit stands in str at position p.
LiteralAt(str, p, lit) ==
    /\ p + Len(lit) - 1 <= Len(str)
    /\ SubSeq(str, p, p + Len(lit) - 1) = lit

\* The texts of the two regular expressions after the captured field.
R_missing_in == <<"'"," ","m","i","s","s","i","n","g"," ","i","n">>
R_has_types == L_has_types

NoMatch == [kind |-> "null"]

\* str.match(/field '([^']+)'<after>(.*)/) for a literal <after>: the
\* leftmost place where "field '" is followed by one or more characters
\* other than ', then by ' and the literal; field is the first group and
\* rest the text after the literal.
MatchField(str, after) ==
    LET closing(p) ==
            CHOOSE q \in (p + Len(L_field))..(Len(str) + 1) :
                /\ q = Len(str) + 1 \/ str[q] = "'"
                /\ \A r \in (p + Len(L_field))..(q - 1) : str[r] # "'"
        matches ==
            { p \in 1..Len(str) :
                /\ LiteralAt(str, p, L_field)
                /\ closing(p) > p + Len(L_field)
                /\ LiteralAt(str, closing(p), after) }
    IN  IF matches = {} THEN NoMatch
        ELSE LET p == CHOOSE m \in matches : \A o \in matches : m <= o
             IN  [kind |-> "match",
                  field |-> SubSeq(str, p + Len(L_field), closing(p) - 1),
                  rest |-> SubSeq(str, closing(p) + Len(after), Len(str))]

\* str.split(', ')
RECURSIVE SplitOnComma(_, _, _)
SplitOnComma(str, i, cur) ==
    IF i > Len(str) THEN << cur >>
    ELSE IF LiteralAt(str, i, L_comma)
    THEN << cur >> \o SplitOnComma(str, i + Len(L_comma), EmptyStr)
    ELSE SplitOnComma(str, i + 1, Append(cur, str[i]))

L_type_missing == <<"m","i","s","s","i","n","g">>
L_type_change == <<"t","y","p","e","_","c","h","a","n","g","e">>

\* The body of analysis.inconsistencies.forEach(msg => ...)
ParseMessage(parsed, msg) ==
    IF Includes(msg, Tail(R_missing_in))
    THEN LET match == MatchField(msg, R_missing_in)
         IN  IF match.kind = "match"
             THEN [parsed EXCEPT !.missingFields =
                      Append(@, [field |-> match.field, path |-> match.field,
                                 type |-> L_type_missing])]
             ELSE parsed
    ELSE IF Includes(msg, SubSeq(R_has_types, 3, Len(R_has_types) - 2))
    THEN LET match == MatchField(msg, R_has_types)
         IN  IF match.kind = "match" /\ Len(match.rest) > 0
             THEN LET types == SplitOnComma(match.rest, 1, EmptyStr)
                  IN  [parsed EXCEPT !.typeChanges =
                           Append(@, [field |-> match.field,
                                      path |-> match.field,
                                      type |-> L_type_change,
                                      expectedType |-> types[1],
                                      actualType |->
                                          Join(Tail(types), L_comma)])]
             ELSE parsed
    ELSE parsed

RECURSIVE ParseMessages(_, _, _)
ParseMessages(msgs, i, parsed) ==
    IF i > Len(msgs) THEN parsed
    ELSE ParseMessages(msgs, i + 1, ParseMessage(parsed, msgs[i]))

\* What the handler pushes to diffs for an endpoint: one entry when the
\* analysis has inconsistencies, none otherwise.
DiffsOf(g, analysed) ==
    IF Len(analysed.inconsistencies) > 0
    THEN << [method |-> g.method,
             path |-> g.path,
             totalResponses |-> Len(g.shapes),
             inconsistencies |->
                 ParseMessages(analysed.inconsistencies, 1,
                     [missingFields |-> << >>, typeChanges |-> << >>,
                      extraFields |-> << >>]),
             baseShape |-> g.shapes[1],
             variantShapes |-> Tail(g.shapes)] >>
    ELSE << >>

\* What the handler gives to analyzeEndpointDiffs, what it gets back, and
\* what it pushes to diffs.
Handed(table) ==
    { [groupedEndpoint |-> g, analysis |-> analyzeEndpointDiffs(g),
       diffs |-> DiffsOf(g, analyzeEndpointDiffs(g))] :
        g \in { h \in { groupedEndpoint(ep,
                            CollectShapes(
                                getEndpointRequests(table, ep.method,
                                                    ep.path, DiffsLimit),
                                1, << >>)) :
                        ep \in getUniqueEndpoints(table) } :
                  Len(h.shapes) > 1 } }

\* The rows the proxy can log.
MaxRows == 3

M_POST == <<"P","O","S","T">>
LoggedEndpoints ==
    { [method |-> M_GET, path |-> P_users],
      [method |-> M_GET, path |-> P_orders],
      [method |-> M_POST, path |-> P_users] }

B_num == <<"{","\"","a","\"",":","1","}">>
B_str == <<"{","\"","a","\"",":","\"","x","\"","}">>
B_cut == <<"{","\"","a">>
B_nokey == <<"{","\"","\"",":","1","}">>

\* Status code and body of a response, the last one a proxy error.
Responses ==
    { [statusCode |-> JNumber(200), responseBody |-> JString(B_num)],
      [statusCode |-> JNumber(299), responseBody |-> JString(B_str)],
      [statusCode |-> JNumber(199), responseBody |-> JString(B_num)],
      [statusCode |-> JNumber(300), responseBody |-> JString(B_str)],
      [statusCode |-> JNumber(200), responseBody |-> JString(EmptyStr)],
      [statusCode |-> JNumber(200), responseBody |-> JString(B_cut)],
      [statusCode |-> JNumber(200), responseBody |-> JString(B_nokey)],
      [statusCode |-> Undefined, responseBody |-> Undefined] }

Diffed == Len(handed) = 1

\* logRequest({...}) at the end of a proxied exchange.
LogRequest(ep, response) ==
    /\ ~Diffed
    /\ Len(requests) < MaxRows
    /\ requests' = logRequest(requests,
                       [sessionId |-> CURRENT_SESSION_ID,
                        method |-> ep.method, path |-> ep.path,
                        statusCode |-> response.statusCode,
                        responseBody |-> response.responseBody,
                        timestamp |-> Len(requests) + 1])
    /\ UNCHANGED << method, path, shapes, analysis, probe, fields, resolved,
                    extractVars, bodyVars, handed, serverVars >>

\* app.get('/api/diffs', ...)
GetDiffs ==
    /\ ~Diffed
    /\ handed' = << Handed(requests) >>
    /\ UNCHANGED << method, path, shapes, analysis, probe, fields, resolved,
                    extractVars, bodyVars, requests, serverVars >>

NextDiffs ==
    \/ \E ep \in LoggedEndpoints, response \in Responses :
           LogRequest(ep, response)
    \/ GetDiffs

SpecDiffs == Init /\ [][NextDiffs]_vars

\* A logged request a shape of the GroupedEndpoint g can come from: same
\* method and path, a status from 200 to 299, and a response body that
\* parses as JSON and has a shape.
IsSource(row, g) ==
    /\ row.method = g.method
    /\ row.path = g.path
    /\ row.status_code.kind = "number"
    /\ row.status_code.num \in 200..299
    /\ JSON_parse(row.response_body) # SyntaxError
    /\ extractShape(JSON_parse(row.response_body)) # TypeError

\* The shapes of the sources of g, newest request first.
SourceShapes(g) ==
    LET src == SelectSeq(requests, LAMBDA row : IsSource(row, g))
    IN  [k \in 1..Len(src) |->
            extractShape(JSON_parse(src[Len(src) + 1 - k].response_body))]

\* C19: every shape handed to analyzeEndpointDiffs for an endpoint comes
\* from a logged request of the same method and path with a status in
\* [200, 300) whose response body parses as JSON; requests with another
\* status, an empty body or an unparseable body contribute nothing.
C19_ShapeSources ==
    Diffed =>
        \A h \in handed[1] :
            /\ h.groupedEndpoint.shapes = SourceShapes(h.groupedEndpoint)
            /\ h.analysis.shapes = SourceShapes(h.groupedEndpoint)

\* An endpoint handed over with two shapes out of three logged requests,
\* the third one having a status outside the range or a body that is no
\* JSON.
C19_Witness ==
    /\ Diffed
    /\ Len(requests) = 3
    /\ \E h \in handed[1] :
           /\ Len(h.groupedEndpoint.shapes) = 2
           /\ \A i \in 1..3 :
                  /\ requests[i].method = h.groupedEndpoint.method
                  /\ requests[i].path = h.groupedEndpoint.path
                  /\ Len(requests[i].response_body) > 0

----------------------------------------------------------------------------
(* The server: capture middleware, /api routes and the proxy handlers *)

\* The most requests the server receives in one run.
MaxRequests == 3

\* Map.prototype.delete(key)
MapDelete(map, key) == [k \in (DOMAIN map) \ {key} |-> map[k]]

P_api_requests == <<"/","a","p","i","/","r","e","q","u","e","s","t","s">>

\* Where express routes a request: to a handler of /api, or to the proxy.
RouteOf(url) == IF url = P_api_requests THEN "api" ELSE "proxy"

RequestUrls == { P_users, P_api_requests }

\* What the backend answers: status code and body.
BackendResponses ==
    { [statusCode |-> JNumber(200), responseBody |-> JString(B_num)],
      [statusCode |-> JNumber(300), responseBody |-> JString(B_cut)] }

InFlight(id, phase) == \E r \in inflight : r.id = id /\ r.phase = phase
Request(id) == CHOOSE r \in inflight : r.id = id

\* The capture middleware, run for every request before the routes; the
\* requestId (time and a random number) is taken to be new each time.
Capture(m, url) ==
    /\ issued < MaxRequests
    /\ LET requestId == issued + 1
           metadata == [startTime |-> issued + 1, method |-> m, path |-> url]
       IN  /\ requestMetadataMap' =
                  MapSet(requestMetadataMap, requestId, metadata)
           /\ inflight' = inflight \cup
                  { [id |-> requestId, route |-> RouteOf(url),
                     phase |-> "routed", response |-> Undefined,
                     metadata |-> Undefined] }
    /\ issued' = issued + 1
    /\ UNCHANGED << method, path, shapes, analysis, probe, fields, resolved,
                    extractVars, bodyVars, logVars, request_count, logCalls, over >>

\* app.get('/api/requests', ...): res.json(...) ends the request.
GetRequests(id) ==
    /\ InFlight(id, "routed")
    /\ Request(id).route = "api"
    /\ inflight' = inflight \ { Request(id) }
    /\ UNCHANGED << method, path, shapes, analysis, probe, fields, resolved,
                    extractVars, bodyVars, logVars, requestMetadataMap, issued,
                    request_count, logCalls, over >>

\* on.proxyRes: the backend has answered; the body is still to come.
ProxyRes(id, response) ==
    /\ InFlight(id, "routed")
    /\ Request(id).route = "proxy"
    /\ IF id \in DOMAIN requestMetadataMap
       THEN /\ inflight' = (inflight \ { Request(id) }) \cup
                   { [Request(id) EXCEPT
                          !.phase = "streaming",
                          !.response = response,
                          !.metadata = requestMetadataMap[id]] }
            /\ requestMetadataMap' = MapDelete(requestMetadataMap, id)
       ELSE /\ inflight' = (inflight \ { Request(id) }) \cup
                   { [Request(id) EXCEPT !.phase = "piping"] }
            /\ UNCHANGED requestMetadataMap
    /\ UNCHANGED << method, path, shapes, analysis, probe, fields, resolved,
                    extractVars, bodyVars, logVars, issued,
                    request_count, logCalls, over >>

\* How many times logRequest was called for the request id.
CallsOf(id) == IF id \in DOMAIN logCalls THEN logCalls[id] ELSE 0

\* logRequest(data); updateSessionCount(CURRENT_SESSION_ID), as both proxy
\* handlers call them.  accepted: whether the database took the INSERT; a
\* rejected one is caught and reported inside logRequest.
LogAndCount(id, data, accepted) ==
    /\ requests' = IF accepted THEN logRequest(requests, data) ELSE requests
    /\ request_count' =
           updateSessionCount(requests', request_count, CURRENT_SESSION_ID)
    /\ logCalls' = MapSet(logCalls, id, CallsOf(id) + 1)

\* proxyRes.on('end', ...): log the exchange with the metadata the proxyRes
\* handler read, and end the client response; without metadata the
\* response was piped and only ends.
ProxyEnd(id, accepted) ==
    /\ InFlight(id, "streaming") \/ InFlight(id, "piping")
    /\ IF InFlight(id, "streaming")
       THEN LogAndCount(id,
                [sessionId |-> CURRENT_SESSION_ID,
                 method |-> Request(id).metadata.method,
                 path |-> Request(id).metadata.path,
                 statusCode |-> Request(id).response.statusCode,
                 responseBody |-> Request(id).response.responseBody,
                 timestamp |-> Request(id).metadata.startTime],
                accepted)
       ELSE UNCHANGED << requests, request_count, logCalls >>
    /\ inflight' = inflight \ { Request(id) }
    /\ over' = over \cup { id }
    /\ UNCHANGED << method, path, shapes, analysis, probe, fields, resolved,
                    extractVars, bodyVars, handed, requestMetadataMap, issued >>

\* on.error: the backend could not be reached, or the connection to it
\* broke while the response was coming in; log if the metadata is still in
\* the map, clean up, answer 502 unless the headers are out.  A response
\* broken off does not emit 'end'.
ProxyError(id, accepted) ==
    /\ \/ InFlight(id, "routed")
       \/ InFlight(id, "streaming")
       \/ InFlight(id, "piping")
    /\ Request(id).route = "proxy"
    /\ IF id \in DOMAIN requestMetadataMap
       THEN /\ LogAndCount(id,
                   [sessionId |-> CURRENT_SESSION_ID,
                    method |-> requestMetadataMap[id].method,
                    path |-> requestMetadataMap[id].path,
                    statusCode |-> Undefined,
                    responseBody |-> Undefined,
                    timestamp |-> requestMetadataMap[id].startTime],
                   accepted)
            /\ requestMetadataMap' = MapDelete(requestMetadataMap, id)
       ELSE UNCHANGED << requests, request_count, logCalls,
                         requestMetadataMap >>
    /\ inflight' = inflight \ { Request(id) }
    /\ over' = over \cup { id }
    /\ UNCHANGED << method, path, shapes, analysis, probe, fields, resolved,
                    extractVars, bodyVars, handed, issued >>

RequestIds == 1..MaxRequests

NextServer ==
    \/ \E m \in Methods, url \in RequestUrls : Capture(m, url)
    \/ \E id \in RequestIds : GetRequests(id)
    \/ \E id \in RequestIds, response \in BackendResponses :
           ProxyRes(id, response)
    \/ \E id \in RequestIds, accepted \in BOOLEAN : ProxyEnd(id, accepted)
    \/ \E id \in RequestIds, accepted \in BOOLEAN : ProxyError(id, accepted)

\* A row an earlier run of the server left in the database file.
EarlierRow ==
    RequestRow([sessionId |-> EARLIER_SESSION_ID,
                method |-> M_GET, path |-> P_users,
                statusCode |-> JNumber(200),
                responseBody |-> JString(B_num),
                timestamp |-> 0])

\* The server starts on an empty database or on the file of an earlier
\* run, with a new session whose request_count is the column's default.
InitServer ==
    /\ method \in Methods
    /\ path \in Paths
    /\ shapes = << >>
    /\ analysis = << >>
    /\ probe = Null
    /\ fields = << >>
    /\ resolved = << >>
    /\ ExtractIdle /\ BodyIdle /\ ServerIdle
    /\ requests \in { << >>, << EarlierRow >> }
    /\ handed = << >>

SpecServer == InitServer /\ [][NextServer]_vars

\* C20: every entry the capture middleware puts in requestMetadataMap is
\* removed after that request's response, for proxied requests and
\* requests to /api routes alike: an entry belongs to a request still in
\* flight, and the map is empty whenever no request is in flight.
C20_MetadataRemoved ==
    /\ DOMAIN requestMetadataMap \subseteq { r.id : r \in inflight }
    /\ inflight = {} => DOMAIN requestMetadataMap = {}

\* C21: every proxied request is logged exactly once: whatever the order
\* of the proxyRes, end and error callbacks, once the exchange of a proxied
\* request is over (backend response ended, or a proxy error before or
\* during the response) logRequest has been called exactly once for it.
C21_LoggedOnce == \A id \in over : CallsOf(id) = 1

----------------------------------------------------------------------------
(* truncateBody on bodies around MAX_BODY_SIZE *)

\* The largest of the small body sizes.
MaxSmall == 5

\* n times the element c
Fill(c, n) == SubSeq([i \in 1..n |-> c], 1, n)

\* The body a descriptor stands for: a string, a Buffer of the same text,
\* or an array holding the string (an object to JSON.stringify).
BodyOf(d) ==
    CASE d.kind = "string" -> JString(Fill(d.fill, d.size))
      [] d.kind = "buffer" -> Buffer(Fill(CharCode(d.fill), d.size))
      [] d.kind = "object" -> JArray(<< JString(Fill(d.fill, d.size)) >>)
      [] OTHER -> Undefined

\* Sizes far below MAX_BODY_SIZE and on both sides of it; the text of the
\* array is four characters longer than its string.
BodySizes ==
    (0..MaxSmall) \cup
        { MAX_BODY_SIZE - 4, MAX_BODY_SIZE - 3, MAX_BODY_SIZE,
          MAX_BODY_SIZE + 1 }

BodyUniverse ==
    { [kind |-> k, fill |-> c, size |-> n] :
        k \in {"string", "buffer", "object"}, c \in {"x", "y"},
        n \in BodySizes }
      \cup { [kind |-> "undefined", fill |-> "x", size |-> 0] }

\* A text as its runs of equal characters, in order.
Runs(text) ==
    LET starts == { i \in 1..Len(text) : i = 1 \/ text[i] # text[i - 1] }
        nth(k) == CHOOSE b \in starts :
                      Cardinality({ c \in starts : c <= b }) = k
        n == Cardinality(starts)
    IN  [k \in 1..n |->
            [char |-> text[nth(k)],
             count |-> (IF k = n THEN Len(text) + 1 ELSE nth(k + 1))
                           - nth(k)]]

Truncated == Len(stored) = 1

InitTruncate ==
    /\ method \in Methods
    /\ path \in Paths
    /\ shapes = << >>
    /\ analysis = << >>
    /\ probe = Null
    /\ fields = << >>
    /\ resolved = << >>
    /\ ExtractIdle /\ LogIdle /\ ServerIdle
    /\ body \in BodyUniverse
    /\ stored = << >>

\* const responseBody = truncateBody(data.responseBody)
Truncate ==
    /\ ~Truncated
    /\ stored' = << Runs(truncateBody(BodyOf(body))) >>
    /\ UNCHANGED << method, path, shapes, analysis, probe, fields, resolved,
                    extractVars, body, logVars, serverVars >>

NextTruncate == Truncate

SpecTruncate == InitTruncate /\ [][NextTruncate]_vars

\* The whole body as text, and its size.
TextOf(d) ==
    CASE d.kind = "string" -> Fill(d.fill, d.size)
      [] d.kind = "buffer" -> Fill(d.fill, d.size)
      [] d.kind = "object" -> <<"[", "\"">> \o Fill(d.fill, d.size)
                                  \o <<"\"", "]">>
      [] OTHER -> EmptyStr

\* C22: truncateBody stores a body of at most MAX_BODY_SIZE unchanged; for
\* a larger body, given as a string, a Buffer or an object, it stores the
\* first MAX_BODY_SIZE characters followed by the marker
\* '[TRUNCATED - Original size: n bytes]' with n the original size.
C22_Truncation ==
    Truncated =>
        LET text == TextOf(body)
        IN  stored[1] =
                Runs(IF Len(text) <= MAX_BODY_SIZE THEN text
                     ELSE SubSeq(text, 1, MAX_BODY_SIZE) \o L_truncated
                              \o NumToStr(Len(text)) \o L_bytes)

\* The rows of the requests table that belong to the active session.
SessionRows ==
    SelectSeq(requests, LAMBDA row : row.session_id = CURRENT_SESSION_ID)

FoundMissing(g) ==
    LET col == CollectFields(g.shapes, 1, NoFields)
    IN  SelectSeq(col.allFields,
            LAMBDA f : MapGet(col.fieldOccurrences, f, 0) < Len(g.shapes))
FoundChanged(g) ==
    LET col == CollectFields(g.shapes, 1, NoFields)
        changed == SelectSeq(col.allFields,
                       LAMBDA f : Len(col.fieldTypes[f]) > 1)
    IN  [k \in 1..Len(changed) |->
            [field |-> changed[k], types |-> col.fieldTypes[changed[k]]]]

\* C24: the /api/diffs handler recovers the analyzer's result from the
\* messages without loss: for every field name, each missing-field message
\* yields exactly one missingFields entry with the field's path, each
\* type-inconsistency message exactly one typeChanges entry with the
\* field's path, the first type as expectedType and the other types as
\* actualType; no message is dropped or put in the wrong list.
C24_MessagesRecovered ==
    Diffed =>
        \A h \in handed[1] :
            Len(h.diffs) = 1 =>
                LET missing == FoundMissing(h.groupedEndpoint)
                    changed == FoundChanged(h.groupedEndpoint)
                    parsed == h.diffs[1].inconsistencies
                IN  /\ parsed.missingFields =
                           [k \in 1..Len(missing) |->
                               [field |-> missing[k], path |-> missing[k],
                                type |-> L_type_missing]]
                    /\ parsed.typeChanges =
                           [k \in 1..Len(changed) |->
                               [field |-> changed[k].field,
                                path |-> changed[k].field,
                                type |-> L_type_change,
                                expectedType |-> changed[k].types[1],
                                actualType |->
                                    Join(Tail(changed[k].types), L_comma)]]

\* The nodes of a shape with the path getFieldPaths gives each of them:
\* every key of every plain object, under `${prefix}.${key}` or, without a
\* prefix, under the key.
RECURSIVE NodesAt(_, _)
NodesAt(shape, prefix) ==
    IF shape.kind = "object"
    THEN UNION { LET key == shape.fields[i].key
                     fieldPath == IF prefix # EmptyStr
                                  THEN prefix \o << Dot >> \o key ELSE key
                 IN  { [path |-> fieldPath, node |-> shape.fields[i].value] }
                         \cup NodesAt(shape.fields[i].value, fieldPath) :
                 i \in 1..Len(shape.fields) }
    ELSE {}

\* The classification of a node: its tag, "array" or "object".
Classification(node) ==
    IF node.kind = "prim" THEN node.tag
    ELSE IF node.kind = "array" THEN T_array
    ELSE IF node.kind = "object" THEN T_object
    ELSE T_unknown

\* C25: for every path of getFieldPaths(shape), getTypeAtPath(shape, path)
\* returns the classification of a node located at that path, for every
\* key name, keys that contain '.' included; "unknown" is returned only
\* for a node whose own classification is "unknown".
C25_PathsAgree ==
    Resolved =>
        resolved[1].type \in
            { Classification(pn.node) :
                pn \in { qn \in NodesAt(probe, EmptyStr) :
                           qn.path = resolved[1].field } }

----------------------------------------------------------------------------
(* An object against a primitive or an array at the same path *)

\* The types a message list names for p in its type-inconsistency messages.
TypesNamedFor(p) ==
    UNION { Range(CutAtCommas(After(Inconsistencies[k],
                                    L_field \o p \o L_has_types),
                              1, EmptyStr)) :
            k \in TypeAbout(p) }

\* The paths of a shape beneath its path p.
Beneath(shape, p) ==
    { q \in PathSet(shape) : StartsWith(q, p \o << Dot >>) }

\* C26: when a field is an object in one shape and a primitive or an array
\* in another shape at the same path, there is a type-inconsistency message
\* for that path naming "object" and the other tag, and each path beneath
\* the object is reported missing, the shapes where the field is not an
\* object being among those that lack it; the conflict is never reported
\* as missing fields only.
C26_ConflictReported ==
    (Analysed /\ N >= 2) =>
        \A i, j \in 1..N :
            \A p \in PathSet(shapes[i]) :
                LET here == WalkOwnKeys(shapes[i], Split(p))
                    there == WalkOwnKeys(shapes[j], Split(p))
                IN  (here = T_object /\ there \notin {T_object, T_unknown}) =>
                        /\ Cardinality(TypeAbout(p)) = 1
                        /\ {T_object, there} \subseteq TypesNamedFor(p)
                        /\ \A q \in Beneath(shapes[i], p) :
                               /\ j \notin Containing(q)
                               /\ Occurs(ExpectedMissing(q, N - Occurrence(q)))
                                      = 1

\* {u: {p: {b: string}}}, {u: string} and {u: [number]}: u is an object,
\* a string and an array; u.p and u.p.b are missing in two responses.
C26_Witness ==
    /\ Analysed
    /\ shapes = << S_deep, S_uprim, S_uarr >>
    /\ Occurs(ExpectedTypes(K_u, << T_object, T_string, T_array >>)) = 1
    /\ Occurs(ExpectedMissing(K_u \o << Dot >> \o K_p, 2)) = 1
    /\ Occurs(ExpectedMissing(K_u \o << Dot >> \o K_p \o << Dot >> \o K_b, 2))
           = 1
    /\ MissingAbout(K_u) = {}

=============================================================================
